---- MODULE Spec2Model ----
(***************************************************************************)
(* Resize postprocessor of the accuracy checker                            *)
(* (tools/accuracy_checker/accuracy_checker/postprocessor/resize.py).      *)
(*                                                                         *)
(* One call of Resize.process_image(annotations, predictions) is modelled  *)
(* as a state machine: the prediction pass, then the annotation pass, one  *)
(* loop iteration per step.  A payload (entry.value, entry.mask) is        *)
(* represented by its numpy shape and dtype; the pixel contents play no    *)
(* role in any property stated here.                                       *)
(***************************************************************************)
EXTENDS Integers, Sequences, FiniteSets, TLC

VARIABLES annotations, predictions, dst_height, dst_width,
          deprocess_predictions, apply_to, image_size, pc, idx, log, input

vars == <<annotations, predictions, dst_height, dst_width,
          deprocess_predictions, apply_to, image_size, pc, idx, log, input>>

config == <<dst_height, dst_width, deprocess_predictions, apply_to, image_size>>

(***************************************************************************)
(* Bounds of the model.                                                    *)
(***************************************************************************)
\* longest annotation / prediction collection of a call
MaxLen == 2
\* largest native height and width of a payload
MaxDim == 2
\* largest number of class channels of a 3D mask
MaxClasses == 2
\* number of colour channels of a dense value (height x width x channels)
ValueChannels == 3

\* explicit overrides a configuration may carry; <<>> is None, <<n>> is n
DstHeights == {<<>>, <<5>>}
DstWidths == {<<>>, <<6>>}
\* image_size of the frame: (height, width, channels)
ImageSizes == {<<7, 8, 3>>}

(***************************************************************************)
(* Representation classes.                                                 *)
(***************************************************************************)
DensePredictionTypes ==
    {"StyleTransferPrediction", "SuperResolutionPrediction",
     "ImageProcessingPrediction", "ImageInpaintingPrediction"}

DenseAnnotationTypes ==
    {"StyleTransferAnnotation", "SuperResolutionAnnotation",
     "ImageProcessingAnnotation", "ImageInpaintingAnnotation"}

DenseTypes == DensePredictionTypes \cup DenseAnnotationTypes

SuperResolutionTypes == {"SuperResolutionAnnotation", "SuperResolutionPrediction"}

\* a representation class that neither resize nor set_sizes registers
OtherPrediction == "DetectionPrediction"
OtherAnnotation == "DetectionAnnotation"

\* the null placeholder of an annotation collection
None == [cls |-> "NoneType"]

\* ApplyToOption, and the unset apply_to
ApplyToOption == {"ANNOTATION", "PREDICTION", "ALL"}
ApplyToValues == ApplyToOption \cup {"None"}

\* Python truthiness of an optional positive integer and of an entry
IsSet(opt) == opt # <<>>
Truthy(entry) == entry # None

\* prediction or annotation: the operands the wrong way round
Or_prediction_first(annotation, prediction) ==
    IF Truthy(prediction) THEN prediction ELSE annotation

\* annotation or prediction
Or(annotation, prediction) == IF Truthy(annotation) THEN annotation ELSE prediction

Min(a, b) == IF a <= b THEN a ELSE b

(***************************************************************************)
(* Entries.  id stands for the identity of the Python object.              *)
(***************************************************************************)
NativeSizes == (1..MaxDim) \X (1..MaxDim)

ValueShapes == {<<s[1], s[2], ValueChannels>> : s \in NativeSizes}

MaskShapes2D == {<<s[1], s[2]>> : s \in NativeSizes}

MaskShapes3D == {<<c, s[1], s[2]>> : c \in 1..MaxClasses, s \in NativeSizes}

MaskShapes == MaskShapes2D \cup MaskShapes3D

\* the class channels of a payload: 1..classes for a 3D mask, none otherwise
Channels(cls, shape) ==
    IF cls \in {"SegmentationAnnotation", "SegmentationPrediction"} /\ Len(shape) = 3
    THEN [k \in 1..shape[1] |-> k]
    ELSE <<>>

Entry(id, cls, shape, dtype) ==
    [id |-> id, cls |-> cls, shape |-> shape, dtype |-> dtype,
     channels |-> Channels(cls, shape)]

\* an entry not yet placed in a collection
Unplaced == <<"unplaced", 0>>

PredictionEntries ==
    {Entry(Unplaced, c, s, "float32") : c \in DensePredictionTypes, s \in ValueShapes}
    \cup {Entry(Unplaced, "SegmentationPrediction", s, "float32") : s \in MaskShapes}
    \cup {Entry(Unplaced, OtherPrediction, s, "float32") : s \in MaskShapes2D}

AnnotationEntries ==
    {Entry(Unplaced, c, s, "float32") : c \in DenseAnnotationTypes, s \in ValueShapes}
    \cup {Entry(Unplaced, "SegmentationAnnotation", s, "int64") : s \in MaskShapes}
    \cup {Entry(Unplaced, OtherAnnotation, s, "float32") : s \in MaskShapes2D}
    \cup {None}

\* the entries of the longer collections: the smallest payloads of two kinds
BatchPredictionEntries ==
    {e \in PredictionEntries :
        /\ e.cls \in {"SegmentationPrediction", "SuperResolutionPrediction"}
        /\ e.shape \in {<<1, 1>>, <<1, 1, ValueChannels>>}}

BatchAnnotationEntries ==
    {e \in AnnotationEntries :
        \/ e = None
        \/ /\ e.cls \in {"SegmentationAnnotation", "SuperResolutionAnnotation"}
           /\ e.shape \in {<<1, 1>>, <<1, 1, ValueChannels>>}}

\* a collection: its k-th entry is the object <<side, k>>
Collection(side, entries) ==
    [k \in 1..Len(entries) |->
        IF entries[k] = None THEN None ELSE [entries[k] EXCEPT !.id = <<side, k>>]]

SeqsUpTo(S, n) == UNION {[1..m -> S] : m \in 0..n}

\* the calls of the model: every pair of collections of at most one entry,
\* and every pair of collections of at most MaxLen of the batch entries
Calls ==
    (SeqsUpTo(AnnotationEntries, 1) \X SeqsUpTo(PredictionEntries, 1))
    \cup (SeqsUpTo(BatchAnnotationEntries, MaxLen) \X SeqsUpTo(BatchPredictionEntries, MaxLen))

(***************************************************************************)
(* The two resampling primitives, on shapes.                               *)
(***************************************************************************)
\* Image.fromarray(value): a PIL image has size (width, height) and bands
Image_fromarray(shape) == [size |-> <<shape[2], shape[1]>>, bands |-> shape[3]]

\* data.resize(size, Image.BICUBIC)
Image_resize(data, size) == [size |-> size, bands |-> data.bands]

\* np.array(data): (height, width, bands)
np_array_image(data) == <<data.size[2], data.size[1], data.bands>>

\* np.array(entry_mask): the list of resized class masks, restacked
np_array_stack(masks) == IF masks = <<>> THEN <<0>> ELSE <<Len(masks)>> \o masks[1]

\* the outcome of a primitive that raised instead of returning an array
Raised == <<>>

\* ResizeSegmentationMask.segm_resize(mask, width, height): the shapes the call
\* may return.  A 2D mask comes back as (height, width).  Any other mask is
\* outside the primitive's contract: the call fails, or returns the
\* contract's shape.
segm_resize(mask, width, height) ==
    IF Len(mask) = 2 THEN {<<height, width>>} ELSE {<<height, width>>, Raised}

\* a log record: the operation, the entry it acted on, the class channel
\* (0: the whole payload) and shape it was given, and the height and width
\* it returned or was asked for
Event(op, id, channel, shape, height, width) ==
    [op |-> op, id |-> id, channel |-> channel, shape |-> shape,
     height |-> height, width |-> width]

(***************************************************************************)
(* resize(entry, height, width): the single-dispatch family.  Each handler *)
(* yields the set of its outcomes: whether a primitive raised, the entry   *)
(* as mutated, and the segm_resize calls it made.                          *)
(***************************************************************************)
Outcome(raised, entry, calls) == [raised |-> raised, entry |-> entry, calls |-> calls]

\* data.resize((height, width), ...): the size handed to PIL the wrong way round
resize_dense_transposed(entry, height, width) ==
    LET data == Image_resize(Image_fromarray(entry.shape), <<height, width>>)
    IN  {Outcome(FALSE,
                 [entry EXCEPT !.dtype = "uint8", !.shape = np_array_image(data)],
                 <<>>)}

\* lines 70-84
resize_dense(entry, height, width) ==
    LET data == Image_resize(Image_fromarray(entry.shape), <<width, height>>)
    IN  {Outcome(FALSE,
                 [entry EXCEPT !.dtype = "uint8", !.shape = np_array_image(data)],
                 <<>>)}

\* for class_mask in entry.mask: the 2D slices along the first axis
class_masks(entry) ==
    [k \in 1..Len(entry.channels) |->
        [channel |-> entry.channels[k], shape |-> SubSeq(entry.shape, 2, Len(entry.shape))]]

\* lines 92-96: the loop over the class masks of a 3D mask.  A slice of a 3D
\* mask is 2D, for which segm_resize has one outcome.
resize_class_masks(entry, height, width) ==
    LET masks == class_masks(entry)
        entry_mask == [k \in 1..Len(masks) |->
                         [channel |-> masks[k].channel,
                          shape |-> CHOOSE m \in segm_resize(masks[k].shape, width, height) : TRUE]]
    IN  {Outcome(FALSE,
                 [entry EXCEPT
                    !.shape = np_array_stack([k \in 1..Len(entry_mask) |-> entry_mask[k].shape]),
                    !.channels = [k \in 1..Len(entry_mask) |-> entry_mask[k].channel]],
                 [k \in 1..Len(masks) |->
                    Event("segm_resize", entry.id, masks[k].channel, masks[k].shape,
                          height, width)])}

\* lines 89 and 102: the whole mask handed to segm_resize in one call
resize_whole_mask(entry, height, width) ==
    {Outcome(mask = Raised,
             IF mask = Raised THEN entry
             ELSE [entry EXCEPT !.shape = mask, !.channels = <<>>],
             <<Event("segm_resize", entry.id, 0, entry.shape, height, width)>>)
       : mask \in segm_resize(entry.shape, width, height)}

\* the 3D mask handed to segm_resize whole, without the loop over class masks
resize_SegmentationPrediction_whole(entry, height, width) ==
    resize_whole_mask(entry, height, width)

\* lines 86-98
resize_SegmentationPrediction(entry, height, width) ==
    IF Len(entry.shape) = 2
    THEN resize_whole_mask(entry, height, width)
    ELSE resize_class_masks(entry, height, width)

\* segm_resize(entry.mask, height, width): the arguments the wrong way round
resize_SegmentationAnnotation_transposed(entry, height, width) ==
    resize_whole_mask(entry, width, height)

\* lines 100-104
resize_SegmentationAnnotation(entry, height, width) ==
    resize_whole_mask(entry, height, width)

\* an unregistered kind treated as a mask instead of being returned as it is
resize_default_as_mask(entry, height, width) ==
    resize_whole_mask(entry, height, width)

\* lines 66-68
resize_default(entry, height, width) == {Outcome(FALSE, entry, <<>>)}

resize(entry, height, width) ==
    CASE entry.cls \in DenseTypes -> resize_dense(entry, height, width)
      [] entry.cls = "SegmentationPrediction" ->
            resize_SegmentationPrediction(entry, height, width)
      [] entry.cls = "SegmentationAnnotation" ->
            resize_SegmentationAnnotation(entry, height, width)
      [] OTHER -> resize_default(entry, height, width)

(***************************************************************************)
(* set_sizes(entry): the single-dispatch family, <<height, width>>.        *)
(***************************************************************************)
\* the width falling back on image_size[0] instead of image_size[1]
set_sizes_default_wrong_axis(entry) ==
    <<IF IsSet(dst_height) THEN dst_height[1] ELSE image_size[1],
      IF IsSet(dst_width) THEN dst_width[1] ELSE image_size[1]>>

\* lines 106-111
set_sizes_default(entry) ==
    <<IF IsSet(dst_height) THEN dst_height[1] ELSE image_size[1],
      IF IsSet(dst_width) THEN dst_width[1] ELSE image_size[2]>>

\* the super-resolution rule falling back on image_size like the default rule
set_sizes_SuperResolution_from_frame(entry) ==
    <<IF IsSet(dst_height) THEN dst_height[1] ELSE image_size[1],
      IF IsSet(dst_width) THEN dst_width[1] ELSE image_size[2]>>

\* lines 113-119
set_sizes_SuperResolution(entry) ==
    <<IF IsSet(dst_height) THEN dst_height[1] ELSE entry.shape[1],
      IF IsSet(dst_width) THEN dst_width[1] ELSE entry.shape[2]>>

\* the segmentation-prediction rule without the test of _deprocess_predictions
set_sizes_SegmentationPrediction_no_deprocess(entry) ==
    <<IF IsSet(dst_height) THEN dst_height[1] ELSE image_size[1],
      IF IsSet(dst_width) THEN dst_width[1] ELSE image_size[2]>>

\* lines 121-128
set_sizes_SegmentationPrediction(entry) ==
    IF deprocess_predictions
    THEN SubSeq(image_size, 1, 2)
    ELSE <<IF IsSet(dst_height) THEN dst_height[1] ELSE image_size[1],
           IF IsSet(dst_width) THEN dst_width[1] ELSE image_size[2]>>

set_sizes(entry) ==
    CASE entry.cls \in SuperResolutionTypes -> set_sizes_SuperResolution(entry)
      [] entry.cls = "SegmentationPrediction" -> set_sizes_SegmentationPrediction(entry)
      [] OTHER -> set_sizes_default(entry)

(***************************************************************************)
(* The state after configure() and at the entry of process_image.          *)
(***************************************************************************)
Init ==
    /\ dst_height \in DstHeights
    /\ dst_width \in DstWidths
    /\ deprocess_predictions \in BOOLEAN
    /\ apply_to \in ApplyToValues
    /\ image_size \in ImageSizes
    /\ \E call \in Calls :
          /\ annotations = Collection("annotation", call[1])
          /\ predictions = Collection("prediction", call[2])
    /\ input = [annotations |-> annotations, predictions |-> predictions]
    /\ pc = "prediction_pass"
    /\ idx = 1
    /\ log = <<>>

\* the prediction gate open for every ApplyToOption
PredictionGate_any_option == apply_to = "None" \/ apply_to \in ApplyToOption

\* line 130
PredictionGate == apply_to = "None" \/ apply_to \in {"PREDICTION", "ALL"}

\* line 140
AnnotationGate == apply_to = "None" \/ apply_to \in {"ANNOTATION", "ALL"}

\* the paired loop stopping one pair early
ZipLen_one_short == Min(Len(annotations), Len(predictions)) - 1

\* zip(annotations, predictions) stops with the shorter collection
ZipLen == Min(Len(annotations), Len(predictions))

\* height, width = set_sizes(source); resize(target, height, width), as log records
Resolved(source, target, size) ==
    <<Event("set_sizes", source.id, 0, source.shape, size[1], size[2]),
      Event("resize", target.id, 0, target.shape, size[1], size[2])>>

\* lines 132-134: one iteration of the paired loop
PredictionPaired ==
    /\ pc = "prediction_pass"
    /\ PredictionGate
    /\ annotations # <<>>
    /\ idx <= ZipLen
    /\ LET annotation == annotations[idx]
           prediction == predictions[idx]
           source == Or(annotation, prediction)
           size == set_sizes(source)
       IN  \E r \in resize(prediction, size[1], size[2]) :
              /\ predictions' = [predictions EXCEPT ![idx] = r.entry]
              /\ log' = log \o Resolved(source, prediction, size) \o r.calls
              /\ pc' = IF r.raised THEN "raised" ELSE pc
    /\ idx' = idx + 1
    /\ UNCHANGED <<annotations, config, input>>

\* lines 136-138: one iteration of the loop over the predictions alone
PredictionAlone ==
    /\ pc = "prediction_pass"
    /\ PredictionGate
    /\ annotations = <<>>
    /\ idx <= Len(predictions)
    /\ LET prediction == predictions[idx]
           size == set_sizes(prediction)
       IN  \E r \in resize(prediction, size[1], size[2]) :
              /\ predictions' = [predictions EXCEPT ![idx] = r.entry]
              /\ log' = log \o Resolved(prediction, prediction, size) \o r.calls
              /\ pc' = IF r.raised THEN "raised" ELSE pc
    /\ idx' = idx + 1
    /\ UNCHANGED <<annotations, config, input>>

\* the prediction pass is over, or its gate is closed: on to line 140
PredictionPassEnd ==
    /\ pc = "prediction_pass"
    /\ \/ ~PredictionGate
       \/ annotations # <<>> /\ idx > ZipLen
       \/ annotations = <<>> /\ idx > Len(predictions)
    /\ pc' = "annotation_pass"
    /\ idx' = 1
    /\ UNCHANGED <<annotations, predictions, config, input, log>>

\* lines 142-143
AnnotationSkip ==
    /\ pc = "annotation_pass"
    /\ AnnotationGate
    /\ idx <= Len(annotations)
    /\ annotations[idx] = None
    /\ idx' = idx + 1
    /\ UNCHANGED <<annotations, predictions, config, input, log, pc>>

\* lines 144-145
AnnotationResize ==
    /\ pc = "annotation_pass"
    /\ AnnotationGate
    /\ idx <= Len(annotations)
    /\ annotations[idx] # None
    /\ LET annotation == annotations[idx]
           size == set_sizes(annotation)
       IN  \E r \in resize(annotation, size[1], size[2]) :
              /\ annotations' = [annotations EXCEPT ![idx] = r.entry]
              /\ log' = log \o Resolved(annotation, annotation, size) \o r.calls
              /\ pc' = IF r.raised THEN "raised" ELSE pc
    /\ idx' = idx + 1
    /\ UNCHANGED <<predictions, config, input>>

\* line 147
Return ==
    /\ pc = "annotation_pass"
    /\ ~AnnotationGate \/ idx > Len(annotations)
    /\ pc' = "done"
    /\ UNCHANGED <<annotations, predictions, config, input, log, idx>>

Next ==
    \/ PredictionPaired
    \/ PredictionAlone
    \/ PredictionPassEnd
    \/ AnnotationSkip
    \/ AnnotationResize
    \/ Return

Spec == Init /\ [][Next]_vars

(***************************************************************************)
(* Vocabulary of the properties.                                           *)
(***************************************************************************)
SegmentationTypes == {"SegmentationAnnotation", "SegmentationPrediction"}

\* the kinds resize registers a handler for
RecognisedTypes == DenseTypes \cup SegmentationTypes

\* the entry an object id names, as it was passed in and as it is now
InputOf(id) ==
    IF id[1] = "annotation" THEN input.annotations[id[2]] ELSE input.predictions[id[2]]

EntryOf(id) ==
    IF id[1] = "annotation" THEN annotations[id[2]] ELSE predictions[id[2]]

\* the spatial extent <<height, width>> of a payload: value is
\* height x width x channels, mask is height x width or classes x height x width
Spatial(entry) ==
    IF entry.cls \in SegmentationTypes /\ Len(entry.shape) = 3
    THEN <<entry.shape[2], entry.shape[3]>>
    ELSE <<entry.shape[1], entry.shape[2]>>

FrameSize == <<image_size[1], image_size[2]>>

\* the positions of the log at which resize was called
ResizeCalls == {k \in 1..Len(log) : log[k].op = "resize"}

\* the resize calls of the prediction pass and of the annotation pass
PredictionResizes == {k \in ResizeCalls : log[k].id[1] = "prediction"}
AnnotationResizes == {k \in ResizeCalls : log[k].id[1] = "annotation"}

\* no annotation stands at index i: the collection is empty or holds None there
AnnotationAbsent(i) ==
    \/ input.annotations = <<>>
    \/ i <= Len(input.annotations) /\ input.annotations[i] = None

\* the number of times resize was called on the object id
TimesResized(id) == Cardinality({k \in ResizeCalls : log[k].id = id})

(***************************************************************************)
(* C1.                                                                     *)
(***************************************************************************)
\* C1 as stated: whenever deprocess_predictions is set, every segmentation
\* prediction the prediction pass resizes is resized to the frame's native
\* (height, width), whatever dst_height, dst_width and the annotation
\* collection are.
C1_DeprocessAlwaysFrameSize ==
    deprocess_predictions =>
        \A k \in PredictionResizes :
            InputOf(log[k].id).cls = "SegmentationPrediction" =>
                /\ <<log[k].height, log[k].width>> = FrameSize
                /\ Spatial(EntryOf(log[k].id)) = FrameSize

\* C1 as amended: whenever deprocess_predictions is set, every segmentation
\* prediction the prediction pass resizes at an index where no annotation
\* stands (empty annotation collection, or None at that index) is resized to
\* the frame's native (height, width), whatever dst_height and dst_width are.
C1_DeprocessFrameSizeWithoutAnnotation ==
    deprocess_predictions =>
        \A k \in PredictionResizes :
            /\ InputOf(log[k].id).cls = "SegmentationPrediction"
            /\ AnnotationAbsent(log[k].id[2])
            => /\ <<log[k].height, log[k].width>> = FrameSize
               /\ Spatial(EntryOf(log[k].id)) = FrameSize

\* a segmentation prediction beside None was resized to the frame size although
\* both overrides are set
C1_Witness ==
    /\ deprocess_predictions
    /\ IsSet(dst_height) /\ IsSet(dst_width)
    /\ \E k \in PredictionResizes :
          /\ InputOf(log[k].id).cls = "SegmentationPrediction"
          /\ input.annotations # <<>>
          /\ input.annotations[log[k].id[2]] = None
          /\ Spatial(EntryOf(log[k].id)) = FrameSize
          /\ Spatial(InputOf(log[k].id)) # FrameSize

(***************************************************************************)
(* C2.                                                                     *)
(***************************************************************************)
\* every axis without an override keeps the extent the entry had
KeepsUnsetAxes(id) ==
    /\ ~IsSet(dst_height) => Spatial(EntryOf(id))[1] = Spatial(InputOf(id))[1]
    /\ ~IsSet(dst_width) => Spatial(EntryOf(id))[2] = Spatial(InputOf(id))[2]

\* C2 as stated: for every super-resolution entry process resizes, annotation
\* or prediction, an axis without an override keeps the entry's own native
\* extent (so with neither override set the entry's height and width are
\* unchanged).
C2_SuperResolutionKeepsOwnExtent ==
    \A k \in ResizeCalls :
        InputOf(log[k].id).cls \in SuperResolutionTypes => KeepsUnsetAxes(log[k].id)

\* C2 as amended: the same, for every super-resolution annotation and for
\* every super-resolution prediction resized at an index where no annotation
\* stands.
C2_SuperResolutionKeepsOwnExtentUnpaired ==
    \A k \in ResizeCalls :
        /\ InputOf(log[k].id).cls \in SuperResolutionTypes
        /\ log[k].id[1] = "prediction" => AnnotationAbsent(log[k].id[2])
        => KeepsUnsetAxes(log[k].id)

\* a super-resolution prediction was resized on the height axis only and kept
\* its own width, which is not the frame's
C2_Witness ==
    /\ IsSet(dst_height) /\ ~IsSet(dst_width)
    /\ \E k \in PredictionResizes :
          /\ InputOf(log[k].id).cls = "SuperResolutionPrediction"
          /\ AnnotationAbsent(log[k].id[2])
          /\ Spatial(EntryOf(log[k].id))[1] = dst_height[1]
          /\ Spatial(EntryOf(log[k].id))[1] # Spatial(InputOf(log[k].id))[1]
          /\ Spatial(EntryOf(log[k].id))[2] = Spatial(InputOf(log[k].id))[2]
          /\ Spatial(EntryOf(log[k].id))[2] # FrameSize[2]

(***************************************************************************)
(* C3.                                                                     *)
(***************************************************************************)
\* the kinds the default rule resolves
DefaultRuleTypes ==
    ((DenseTypes \ SuperResolutionTypes) \cup {"SegmentationAnnotation"})
    \cup (IF deprocess_predictions THEN {} ELSE {"SegmentationPrediction"})

\* C3: for every entry resolved by the default rule, the resolved height is
\* dst_height if set and the image_size height otherwise, and the resolved
\* width is dst_width if set and the image_size width otherwise, each axis
\* on its own.
C3_DefaultRule ==
    \A k \in 1..Len(log) :
        log[k].op = "set_sizes" /\ InputOf(log[k].id).cls \in DefaultRuleTypes =>
            /\ IsSet(dst_height) => log[k].height = dst_height[1]
            /\ ~IsSet(dst_height) => log[k].height = image_size[1]
            /\ IsSet(dst_width) => log[k].width = dst_width[1]
            /\ ~IsSet(dst_width) => log[k].width = image_size[2]

\* a style-transfer entry was resolved with the width pinned and the height
\* left to the frame
C3_Witness ==
    /\ ~IsSet(dst_height) /\ IsSet(dst_width)
    /\ \E k \in 1..Len(log) :
          /\ log[k].op = "set_sizes"
          /\ InputOf(log[k].id).cls = "StyleTransferPrediction"
          /\ log[k].height = image_size[1]
          /\ log[k].width = dst_width[1]
          /\ log[k].width # image_size[2]

(***************************************************************************)
(* C4.                                                                     *)
(***************************************************************************)
\* the entries of both collections, None left out
Entries ==
    {annotations[i] : i \in {j \in 1..Len(annotations) : annotations[j] # None}}
    \cup {predictions[i] : i \in 1..Len(predictions)}

\* C4 as stated: after process returns, every entry of the annotation and
\* prediction collections has the spatial extent that set_sizes yields for
\* that entry under the current configuration.
C4_EveryEntryAtItsResolvedSize ==
    pc = "done" => \A entry \in Entries : Spatial(entry) = set_sizes(entry)

\* the entry whose rule resolved the size of the resize call on the object id
SourceOf(id) ==
    IF id[1] = "prediction" /\ ~AnnotationAbsent(id[2])
    THEN input.annotations[id[2]]
    ELSE InputOf(id)

\* C4 as amended: after process returns, every entry of a recognised kind
\* that process called resize on has the spatial extent resolved for that
\* call, whatever its original shape: the size set_sizes yields for the
\* annotation at the same index when a prediction is resized beside a present
\* annotation, and the size set_sizes yields for the entry itself, as it was
\* passed in, otherwise.
C4_ResizedEntryAtResolvedSize ==
    pc = "done" =>
        \A k \in ResizeCalls :
            InputOf(log[k].id).cls \in RecognisedTypes =>
                /\ Spatial(EntryOf(log[k].id)) = <<log[k].height, log[k].width>>
                /\ Spatial(EntryOf(log[k].id)) = set_sizes(SourceOf(log[k].id))

\* process returned, and a dense prediction of another shape stands at the
\* size resolved from its annotation, which is neither square nor its own
C4_Witness ==
    /\ pc = "done"
    /\ \E k \in PredictionResizes :
          /\ InputOf(log[k].id).cls \in DensePredictionTypes
          /\ ~AnnotationAbsent(log[k].id[2])
          /\ Spatial(EntryOf(log[k].id)) = <<log[k].height, log[k].width>>
          /\ log[k].height # log[k].width
          /\ Spatial(InputOf(log[k].id)) # Spatial(EntryOf(log[k].id))

(***************************************************************************)
(* C5.                                                                     *)
(***************************************************************************)
\* C5: resize is called on predictions only when apply_to is unset,
\* PREDICTION or ALL, and on annotations only when apply_to is unset,
\* ANNOTATION or ALL; with apply_to = ANNOTATION every prediction is left
\* unchanged, and with apply_to = PREDICTION every annotation is.
C5_PassesGatedByApplyTo ==
    /\ PredictionResizes # {} => apply_to \in {"None", "PREDICTION", "ALL"}
    /\ AnnotationResizes # {} => apply_to \in {"None", "ANNOTATION", "ALL"}
    /\ apply_to = "ANNOTATION" => predictions = input.predictions
    /\ apply_to = "PREDICTION" => annotations = input.annotations

\* with apply_to = ANNOTATION process returned having changed an annotation
\* and left beside it a prediction of a recognised kind that is not at the
\* size its own rule resolves
C5_Witness ==
    /\ pc = "done"
    /\ apply_to = "ANNOTATION"
    /\ \E k \in AnnotationResizes :
          /\ annotations[log[k].id[2]] # input.annotations[log[k].id[2]]
          /\ log[k].id[2] <= Len(predictions)
          /\ predictions[log[k].id[2]].cls \in RecognisedTypes
          /\ Spatial(predictions[log[k].id[2]]) # set_sizes(predictions[log[k].id[2]])

(***************************************************************************)
(* C6.                                                                     *)
(***************************************************************************)
\* C6: in the prediction pass the size passed to resize for prediction i is
\* the one just resolved by set_sizes, called on annotation i when an
\* annotation stands at i and on prediction i itself exactly when None
\* stands there or the annotation collection is empty.
C6_PredictionResolvedFromAnnotation ==
    \A k \in PredictionResizes :
        LET i == log[k].id[2]
        IN  /\ k > 1
            /\ log[k - 1].op = "set_sizes"
            /\ <<log[k].height, log[k].width>> = <<log[k - 1].height, log[k - 1].width>>
            /\ log[k - 1].id = (IF AnnotationAbsent(i) THEN <<"prediction", i>>
                                ELSE <<"annotation", i>>)
            /\ <<log[k].height, log[k].width>> =
                  (IF AnnotationAbsent(i) THEN set_sizes(input.predictions[i])
                   ELSE set_sizes(input.annotations[i]))

\* a segmentation prediction under deprocess_predictions was resized beside a
\* segmentation annotation to the annotation's size, which its own rule does
\* not yield
C6_Witness ==
    \E k \in PredictionResizes :
        LET i == log[k].id[2]
        IN  /\ ~AnnotationAbsent(i)
            /\ input.annotations[i].cls = "SegmentationAnnotation"
            /\ input.predictions[i].cls = "SegmentationPrediction"
            /\ log[k - 1].id = <<"annotation", i>>
            /\ <<log[k].height, log[k].width>> # set_sizes(input.predictions[i])
            /\ Spatial(predictions[i]) = set_sizes(input.annotations[i])

(***************************************************************************)
(* C7.                                                                     *)
(***************************************************************************)
\* the segm_resize calls made for the object id, in order
SegmResizeCalls(id) ==
    SelectSeq(log, LAMBDA e : e.op = "segm_resize" /\ e.id = id)

\* one segm_resize call per class channel, each on a 2D slice, in channel order
SlicedByChannel(id) ==
    LET calls == SegmResizeCalls(id)
        before == InputOf(id)
    IN  /\ Len(calls) = Len(before.channels)
        /\ \A c \in 1..Len(calls) :
              /\ calls[c].channel = before.channels[c]
              /\ Len(calls[c].shape) = 2
              /\ calls[c].shape = Spatial(before)

\* the mask has the channels it had, in their order, at a new spatial extent
ChannelsPreserved(id, height, width) ==
    /\ EntryOf(id).channels = InputOf(id).channels
    /\ EntryOf(id).shape = <<InputOf(id).shape[1], height, width>>

\* the resize calls on segmentation entries whose mask is classes x H x W
MultiChannelResizes ==
    {k \in ResizeCalls :
        /\ InputOf(log[k].id).cls \in SegmentationTypes
        /\ Len(InputOf(log[k].id).shape) = 3}

SameObjects(now, before) ==
    /\ Len(now) = Len(before)
    /\ \A i \in 1..Len(now) :
          IF before[i] = None THEN now[i] = None
          ELSE now[i] # None /\ now[i].id = before[i].id /\ now[i].cls = before[i].cls

\* C8: an entry of an unrecognised kind keeps its payload in either
\* collection and either pass, and no call fails on account of one; None in
\* the annotation collection is neither resolved nor resized and stays in
\* place; both collections hold the same objects at the same positions.
C8_UnrecognisedAndNonePassThrough ==
    /\ \A i \in 1..Len(predictions) :
          predictions[i].cls \notin RecognisedTypes => predictions[i] = input.predictions[i]
    /\ \A i \in 1..Len(annotations) :
          annotations[i].cls \notin RecognisedTypes => annotations[i] = input.annotations[i]
    /\ \A k \in 1..Len(log) :
          log[k].id[1] = "annotation" => input.annotations[log[k].id[2]] # None
    /\ pc = "raised" => InputOf(log[Len(log)].id).cls \in RecognisedTypes
    /\ SameObjects(annotations, input.annotations)
    /\ SameObjects(predictions, input.predictions)

\* process returned with both gates open: None stands where it stood, and
\* the prediction of an unrecognised kind beside it, on which resize was
\* called with another size than its own, is as it was
C8_Witness ==
    /\ pc = "done"
    /\ apply_to = "ALL"
    /\ input.annotations = <<None>>
    /\ annotations = <<None>>
    /\ \E k \in PredictionResizes :
          /\ InputOf(log[k].id).cls = OtherPrediction
          /\ Spatial(InputOf(log[k].id)) # <<log[k].height, log[k].width>>
          /\ EntryOf(log[k].id) = InputOf(log[k].id)

(***************************************************************************)
(* C9.                                                                     *)
(***************************************************************************)
\* C9: in a call whose prediction gate is open, resize is called exactly once
\* on prediction i if the annotation collection is empty or i is within the
\* shorter of the two collections, and never otherwise, in which case the
\* prediction is untouched; resize is called at most once on each present
\* annotation, and never during the prediction pass.
C9_ResizedOncePerCall ==
    /\ pc = "done" /\ apply_to \in {"None", "PREDICTION", "ALL"} =>
          \A i \in 1..Len(predictions) :
              TimesResized(<<"prediction", i>>) =
                  (IF \/ input.annotations = <<>>
                      \/ i <= Len(input.annotations) /\ i <= Len(input.predictions)
                   THEN 1 ELSE 0)
    /\ \A i \in 1..Len(predictions) :
          /\ TimesResized(<<"prediction", i>>) <= 1
          /\ TimesResized(<<"prediction", i>>) = 0 => predictions[i] = input.predictions[i]
    /\ \A i \in 1..Len(annotations) : TimesResized(<<"annotation", i>>) <= 1
    /\ pc = "prediction_pass" => AnnotationResizes = {} /\ annotations = input.annotations

\* process returned: the first prediction was resized once beside a present
\* annotation, the second, past the end of the annotations, never
C9_Witness ==
    /\ pc = "done"
    /\ Len(input.annotations) = 1 /\ Len(input.predictions) = 2
    /\ input.annotations[1] # None
    /\ TimesResized(<<"prediction", 1>>) = 1
    /\ TimesResized(<<"prediction", 2>>) = 0
    /\ TimesResized(<<"annotation", 1>>) = 1
    /\ predictions[1] # input.predictions[1]
    /\ predictions[2] = input.predictions[2]

(***************************************************************************)
(* C10.                                                                    *)
(***************************************************************************)
\* C10: after a call with apply_to unset or ALL, wherever an annotation and a
\* prediction of recognised kinds stand at the same index, their payloads
\* have the same spatial (height, width).
C10_PairAtCommonSize ==
    pc = "done" /\ apply_to \in {"None", "ALL"} =>
        \A i \in 1..Len(annotations) :
            /\ i <= Len(predictions)
            /\ annotations[i] # None
            /\ annotations[i].cls \in RecognisedTypes
            /\ predictions[i].cls \in RecognisedTypes
            => Spatial(annotations[i]) = Spatial(predictions[i])

\* process returned: a super-resolution pair that came in at two sizes stands
\* at the annotation's
C10_Witness ==
    /\ pc = "done"
    /\ apply_to = "None"
    /\ \E i \in 1..Len(annotations) :
          /\ i <= Len(predictions)
          /\ annotations[i] # None
          /\ annotations[i].cls = "SuperResolutionAnnotation"
          /\ predictions[i].cls = "SuperResolutionPrediction"
          /\ Spatial(input.annotations[i]) # Spatial(input.predictions[i])
          /\ Spatial(predictions[i]) = Spatial(input.annotations[i])
          /\ Spatial(annotations[i]) = Spatial(predictions[i])

====
